---- MODULE Spec2Model ----
(***************************************************************************)
(* Model of the invoice signing subsystem of invoxv2.                      *)
(*                                                                         *)
(*   lib/webauthn.ts (src/unnamed/part_005)      challenge store, verify   *)
(*   app/api/invoices/[id]/sign/route.ts                                   *)
(*       (src/unnamed/part_006, second version, lines 169-740)  sign flow  *)
(*   app/api/auth/login/route.ts                 login init / verify       *)
(*   app/api/invoices/[id]/route.ts              PUT update                *)
(*   app/api/invoices/route.ts                   create (totals)           *)
(*   app/api/auth/challenge/route.ts             challenge GET / POST      *)
(*   app/api/pdf/[id]/route.ts                   download of the artifact  *)
(*   utils/pdf.ts                                renderer, savePDF         *)
(*                                                                         *)
(* Every request handler is an async function: each `await` is a point at  *)
(* which another handler may run, so a handler is a sequence of steps      *)
(* (one per awaited database / library call that matters) and the         *)
(* handlers of the Procs interleave.                                       *)
(*                                                                         *)
(* Amounts: the numbers a client sends (quantity, rate, total, discount,   *)
(* tax) are whole numbers; the amounts of an invoice document (subtotal,   *)
(* igst, cgst, sgst, totalTax, discount, grandTotal) are held in           *)
(* hundredths, so that `x * 0.18` and `x * 0.09` are exact.  The rounding  *)
(* of IEEE-754 doubles is not represented.                                 *)
(***************************************************************************)
EXTENDS Integers, Sequences, FiniteSets, TLC

\* ---------------------------------------------------------------- bounds
NumProcs == 2          \* request handlers in flight at the same time
MaxRequests == 4       \* requests started in one behaviour
MaxChallenges == 2     \* challenges issued in one behaviour
MaxSignatures == 2     \* Signature records created in one behaviour
MaxCounter == 2        \* largest counter an assertion reports
MaxTicks == 1          \* steps of the clock in one behaviour
MaxItems == 2          \* line items in the body of a create request
MaxRenders == 2        \* direct calls of the renderer in one behaviour

\* ------------------------------------------------------ program constants
ChallengeTTL == 60000  \* part_005:90  expiresAt: Date.now() + 60000

\* one clock step takes every outstanding challenge past its expiry
TickMs == ChallengeTTL + 1

Procs == 1..NumProcs
Users == {"u1", "u2"}
Invoices == {1}
\* the ids of the Invoice collection; the second document is used by the
\* specifications with two invoices
Documents == {1, 2}
NoUser == "none"
\* a user who has not registered an authenticator (no webAuthnCredential)
Unregistered == {"u0"}
Accounts == Users \cup Unregistered
Statuses == {"draft", "signed", "cancelled"}

\* ------------------------------------------------------------- variables
VARIABLES
  invoices,        \* Invoice collection: id -> document
  signatures,      \* Signature collection: sequence, _id = index
  counter,         \* User.webAuthnCredential.counter per user
  challengeStore,  \* lib/webauthn.ts challengeStore: userId -> StoredChallenge
  nextChallenge,   \* next fresh random challenge value
  now,             \* Date.now()
  pc,              \* position of each handler
  req,             \* locals of each handler
  started,         \* number of requests started so far
  signOk,          \* per invoice: sign verify requests answered with success
  transitions,     \* per invoice: invoice.save() calls of the sign route that wrote 'signed'
  vaSuccess,       \* per challenge: verifyAuthentication calls that returned verified = true
  vaDone,          \* challenges over which a verifyAuthentication call has completed
  logs,            \* Log collection: the entries written by createLog
  issued,          \* per challenge: the user and the flow it was issued for
  files,           \* public/pdfs: file name -> what savePDF wrote there
  sinkUp,          \* whether createLog succeeds (FALSE: every call throws)
  reply,           \* the last response of a guard that refused, or of GET /api/pdf/:id
  renderArgs,      \* the arguments of the renderer calls of RenderCall
  renderOut,       \* the buffers those calls returned, in order
  remote           \* what a fetch of the signature image URL returns now

\* the variables of the direct calls of the renderer
renderVars == <<renderArgs, renderOut, remote>>

vars == <<invoices, signatures, counter, challengeStore, nextChallenge, now,
          pc, req, started, signOk, transitions, vaSuccess, vaDone, logs, issued,
          files, sinkUp, reply, renderArgs, renderOut, remote>>

\* ---------------------------------------------------------------- helpers
\* a whole number as an amount of an invoice document (hundredths)
Money(n) == 100 * n

\* a line item as the client sends it: quantity, rate and total
LineItem(q, r, t) == [quantity |-> q, rate |-> r, total |-> t]

RECURSIVE SumTotals(_)
\* lineItems.reduce((sum, item) => sum + item.total, 0)
SumTotals(items) ==
  IF items = <<>> THEN 0 ELSE Head(items).total + SumTotals(Tail(items))

\* absent entry of the challengeStore map (challengeStore.get -> undefined)
NoChallenge == [challenge |-> 0, expiresAt |-> 0]

\* an invoice number is the sequence of its characters; the number of the
\* invoices that Init and the create requests of SpecCreate make
FirstNumber == <<"A", "/", "1">>

\* invoice.pdfUrl of an invoice without artifact (undefined / '')
NoPdf == <<>>

\* public/pdfs without any file
NoFiles == <<>>

\* body of a response that carries no file
NoBytes == [empty |-> TRUE]

\* no refusal and no GET /api/pdf/:id answered yet
NoReply == [error |-> "none", bytes |-> NoBytes]

\* the create request with the CGST_SGST total taken from one levy alone
CreateInvoiceOneLevy(lineItems, taxType, discountIn, creator) ==
  LET sum == SumTotals(lineItems)
      subtotal == Money(sum)
      igst == IF taxType = "IGST" THEN sum * 18 ELSE 0
      cgst == IF taxType = "IGST" THEN 0 ELSE sum * 9
      sgst == IF taxType = "IGST" THEN 0 ELSE sum * 9
      totalTax == IF taxType = "IGST" THEN igst ELSE cgst
      discount == Money(discountIn)
  IN [ invoiceNumber |-> FirstNumber,
       createdBy |-> creator,
       lineItems |-> lineItems,
       subtotal |-> subtotal,
       taxType |-> taxType,
       igst |-> igst, cgst |-> cgst, sgst |-> sgst,
       totalTax |-> totalTax,
       discount |-> discount,
       grandTotal |-> subtotal + totalTax - discount,
       status |-> "draft",
       signedBy |-> NoUser,
       signedAt |-> -1,
       signatureId |-> 0,
       pdfUrl |-> NoPdf ]

\* app/api/invoices/route.ts POST: totals of a created invoice
CreateInvoice(lineItems, taxType, discountIn, creator) ==
  LET sum == SumTotals(lineItems)
      subtotal == Money(sum)
      igst == IF taxType = "IGST" THEN sum * 18 ELSE 0
      cgst == IF taxType = "IGST" THEN 0 ELSE sum * 9
      sgst == IF taxType = "IGST" THEN 0 ELSE sum * 9
      totalTax == IF taxType = "IGST" THEN igst ELSE cgst + sgst
      discount == Money(discountIn)
  IN [ invoiceNumber |-> FirstNumber,
       createdBy |-> creator,
       lineItems |-> lineItems,
       subtotal |-> subtotal,
       taxType |-> taxType,
       igst |-> igst, cgst |-> cgst, sgst |-> sgst,
       totalTax |-> totalTax,
       discount |-> discount,
       grandTotal |-> subtotal + totalTax - discount,
       status |-> "draft",
       signedBy |-> NoUser,
       signedAt |-> -1,
       signatureId |-> 0,
       pdfUrl |-> NoPdf ]

InvoiceFields == {"invoiceNumber", "createdBy", "lineItems", "subtotal", "taxType", "igst", "cgst",
                  "sgst", "totalTax", "discount", "grandTotal", "status",
                  "signedBy", "signedAt", "signatureId", "pdfUrl"}

\* body of a PUT request: `has` lists the keys present in the JSON
NoBody == [has |-> {}, status |-> "draft", lineItems |-> <<>>, discount |-> 0, tax |-> 0]

Bodies ==
  { [NoBody EXCEPT !.has = {"status"}, !.status = s] : s \in Statuses }
  \cup { [NoBody EXCEPT !.has = {"lineItems"}, !.lineItems = <<LineItem(1, 3, 3)>>] }
  \cup { [NoBody EXCEPT !.has = {"discount"}, !.discount = 1] }

InitialInvoice == CreateInvoice(<<LineItem(2, 1, 2)>>, "IGST", 0, "u1")

\* Invoice.findById(id) -> null: no invoice has this id yet
NoInvoice == [CreateInvoice(<<>>, "IGST", 0, NoUser) EXCEPT !.status = "none"]

\* a challenge value that has not been issued; an issued one is recorded
\* with its user and the flow ("login" or "sign") that issued it
NotIssued == [user |-> NoUser, purpose |-> "none"]

\* utils/logger createLog({userId, action, ...}): one more entry in the Log
\* collection; an entry is its action and its userId.  With the sink down
\* the call throws and nothing is written: every caller awaits it, so the
\* caller's enclosing catch runs next (see the callers)
createLog(action, userId) ==
  logs' = IF sinkUp THEN logs \cup {[action |-> action, userId |-> userId]} ELSE logs

\* ------------------------------------------------ utils/pdf.ts
\* the characters of [a-zA-Z0-9-]
Allowed ==
  {"a", "b", "c", "d", "e", "f", "g", "h", "i", "j", "k", "l", "m",
   "n", "o", "p", "q", "r", "s", "t", "u", "v", "w", "x", "y", "z",
   "A", "B", "C", "D", "E", "F", "G", "H", "I", "J", "K", "L", "M",
   "N", "O", "P", "Q", "R", "S", "T", "U", "V", "W", "X", "Y", "Z",
   "0", "1", "2", "3", "4", "5", "6", "7", "8", "9", "-"}

\* invoiceNumber.replace(/[^a-zA-Z0-9-]/g, '_')
Sanitize(number) ==
  [k \in 1..Len(number) |-> IF number[k] \in Allowed THEN number[k] ELSE "_"]

\* savePDF(buffer, invoiceNumber): fs.writeFileSync at
\* public/pdfs/<sanitized>.pdf, replacing a file that is there; the URL it
\* returns, /pdfs/<sanitized>.pdf, is held as the sanitized name.  `doc` is
\* a ghost: the document whose signing wrote the file
savePDF(store, buffer, invoiceNumber, doc) ==
  LET name == Sanitize(invoiceNumber)
  IN [n \in DOMAIN store \cup {name} |->
        IF n = name THEN [bytes |-> buffer, of |-> doc] ELSE store[n]]

\* company settings (Setting.findOne) and the signature image
DefaultSettings == "s1"
NoImage == "none"

\* generateInvoicePDFWithGST(invoice, settings, signedBy, signedAt,
\* signatureImageUrl): the bytes of pdfDoc.save().  The page shows the line
\* items, the totals and the settings; invoiceNumber, signedBy and signedAt
\* are not drawn.  `image` is what fetch(signatureImageUrl) returned
\* (NoImage without a URL); `clock` is the time of the call, which
\* PDFDocument.create() of pdf-lib writes into the document information
\* (CreationDate, ModDate)
generateInvoicePDFWithGST(invoice, settings, signedBy, signedAt, image, clock) ==
  [ lineItems |-> invoice.lineItems,
    subtotal |-> invoice.subtotal,
    taxType |-> invoice.taxType,
    igst |-> invoice.igst, cgst |-> invoice.cgst, sgst |-> invoice.sgst,
    grandTotal |-> invoice.grandTotal,
    settings |-> settings,
    image |-> image,
    created |-> clock ]

\* arguments of a renderer call: the frozen invoice, the settings, the
\* signer's display name, signedAt and whether a signature image URL is given
NoRenderArgs ==
  [ invoice |-> InitialInvoice, settings |-> DefaultSettings,
    signedBy |-> NoUser, signedAt |-> -1, withImage |-> FALSE ]

IdleReq ==
  [ kind |-> "none", user |-> NoUser, id |-> 1, sigId |-> 0,
    known |-> 0, inv |-> InitialInvoice, cur |-> InitialInvoice,
    ctr |-> 0,
    stored |-> NoChallenge, newCounter |-> 0, body |-> NoBody,
    reuse |-> FALSE, acceptStored |-> 0 ]

\* role in the JWT: nobody is admin here, u1 created the invoices
Role(u) == "user"

\* @simplewebauthn/server verifyAuthenticationResponse, as lib/webauthn.ts
\* calls it: the challenge in the response must be expectedChallenge, the
\* reported counter must exceed authenticator.counter unless both are zero
\* (else it throws), and `verified` is the outcome of the signature check
verifyAuthenticationResponse(response, expectedChallenge, authCounter) ==
  IF response.challenge # expectedChallenge THEN "throw"
  ELSE IF (response.counter > 0 \/ authCounter > 0) /\ response.counter <= authCounter
       THEN "throw"
  ELSE IF response.sigOk THEN "verified"
  ELSE "unverified"

\* the credential check left out: every user passes
HasCredentialUnchecked(u) == TRUE

\* user.webAuthnCredential is set
HasCredential(u) == u \in Users

\* a guard refuses the request: the error response
Refused(error) == reply' = [error |-> error, bytes |-> NoBytes]

\* ghost counters count 0, 1, many
Count(n) == IF n < 2 THEN n + 1 ELSE n

\* the handler of p finishes (response sent); its locals are dropped
Finish(p) ==
  /\ pc' = [pc EXCEPT ![p] = "idle"]
  /\ req' = [req EXCEPT ![p] = IdleReq]

\* a new request is taken by the lowest idle handler
CanStart(p) ==
  /\ pc[p] = "idle"
  /\ started < MaxRequests
  /\ \A q \in Procs : q < p => pc[q] # "idle"

\* An assertion is the challenge in its clientDataJSON, the counter in its
\* authenticatorData and whether its signature is one of the caller's
\* registered key.  The assertions a client can present when `known` challenges have been
\* issued: over one of them, with any counter when the signature is good,
\* and one with a bad signature
Assertions(known) ==
  { a \in [challenge : 1..MaxChallenges, counter : 0..MaxCounter, sigOk : BOOLEAN] :
      /\ a.challenge <= known
      /\ (a.sigOk \/ a.counter = MaxCounter) }

Init ==
  /\ invoices = [i \in Documents |-> IF i \in Invoices THEN InitialInvoice ELSE NoInvoice]
  /\ signatures = <<>>
  /\ counter = [u \in Users |-> 0]
  /\ challengeStore = [u \in Accounts |-> NoChallenge]
  /\ nextChallenge = 1
  /\ now = 0
  /\ pc = [p \in Procs |-> "idle"]
  /\ req = [p \in Procs |-> IdleReq]
  /\ started = 0
  /\ signOk = [i \in Documents |-> 0]
  /\ transitions = [i \in Documents |-> 0]
  /\ vaSuccess = [c \in 1..(MaxChallenges + 1) |-> 0]
  /\ vaDone = {}
  /\ logs = {}
  /\ issued = [c \in 1..MaxChallenges |-> NotIssued]
  /\ files = NoFiles
  /\ sinkUp = TRUE
  /\ reply = NoReply
  /\ renderArgs = NoRenderArgs
  /\ renderOut = <<>>
  /\ remote = "img1"

\* ------------------------------------------------ lib/webauthn.ts
\* generateAuthenticationChallenge(userId): a fresh challenge replaces the
\* user's entry
generateAuthenticationChallenge(u) ==
  /\ nextChallenge <= MaxChallenges
  /\ challengeStore' = [challengeStore EXCEPT
                          ![u] = [challenge |-> nextChallenge,
                                  expiresAt |-> now + ChallengeTTL]]
  /\ nextChallenge' = nextChallenge + 1

\* verifyAuthentication with the presence check alone: an entry past its
\* expiresAt is used
VaGetNoExpiry(p) ==
  /\ pc[p] \in {"sv_verify", "lv_verify"}
  /\ LET stored == challengeStore[req[p].user] IN
       IF stored = NoChallenge
       THEN /\ Finish(p)
            /\ IF pc[p] = "sv_verify"
               THEN createLog("INVOICE_SIGN_FAILED", req[p].user)
               ELSE UNCHANGED logs
       ELSE /\ pc' = [pc EXCEPT ![p] = IF pc[p] = "sv_verify" THEN "sv_lib" ELSE "lv_lib"]
            /\ req' = [req EXCEPT ![p].stored = stored,
                                  ![p].reuse = (stored.challenge \in vaDone)]
            /\ UNCHANGED logs
  /\ UNCHANGED <<invoices, signatures, counter, challengeStore, nextChallenge, now,
                 started, signOk, transitions, vaSuccess, vaDone, issued,
                 files, sinkUp, reply>>
  /\ UNCHANGED renderVars

\* verifyAuthentication, up to the await: challengeStore.get and the
\* presence / expiry check.  A throw is caught by the caller and answered
\* 401: by the sign route after an INVOICE_SIGN_FAILED log (lines 448-466),
\* by the outer catch of the login route without a log.
VaGet(p) ==
  /\ pc[p] \in {"sv_verify", "lv_verify"}
  /\ LET stored == challengeStore[req[p].user] IN
       IF stored = NoChallenge \/ now > stored.expiresAt
       THEN /\ Finish(p)
            /\ IF pc[p] = "sv_verify"
               THEN createLog("INVOICE_SIGN_FAILED", req[p].user)
               ELSE UNCHANGED logs
       ELSE /\ pc' = [pc EXCEPT ![p] = IF pc[p] = "sv_verify" THEN "sv_lib" ELSE "lv_lib"]
            /\ req' = [req EXCEPT ![p].stored = stored,
                                  ![p].reuse = (stored.challenge \in vaDone)]
            /\ UNCHANGED logs
  /\ UNCHANGED <<invoices, signatures, counter, challengeStore, nextChallenge, now,
                 started, signOk, transitions, vaSuccess, vaDone, issued,
                 files, sinkUp, reply>>
  /\ UNCHANGED renderVars

\* verifyAuthentication, after the await: the library's result; the entry of
\* the user is deleted only when verified.  The assertion `a` is the one in
\* the request body: it is read here for the first time, so it is drawn here,
\* from the assertions that existed when the request was sent.  A throw or
\* verified = false is logged by the sign route (INVOICE_SIGN_FAILED);
\* the login route logs verified = false only (LOGIN_FAILED).
VaLib(p, a) ==
  /\ pc[p] \in {"sv_lib", "lv_lib"}
  /\ a \in Assertions(req[p].known)
  /\ LET r == verifyAuthenticationResponse(a, req[p].stored.challenge, req[p].ctr)
         c == req[p].stored.challenge
     IN /\ vaDone' = vaDone \cup {c}
        /\ IF r = "verified"
           THEN /\ challengeStore' = [challengeStore EXCEPT ![req[p].user] = NoChallenge]
                /\ vaSuccess' = [vaSuccess EXCEPT ![c] = Count(@)]
                /\ pc' = [pc EXCEPT ![p] = IF pc[p] = "sv_lib" THEN "sv_counter" ELSE "lv_counter"]
                /\ req' = [req EXCEPT ![p].newCounter = a.counter,
                                      ![p].acceptStored = counter[req[p].user]]
                /\ UNCHANGED logs
           ELSE /\ Finish(p)
                /\ UNCHANGED <<challengeStore, vaSuccess>>
                /\ IF pc[p] = "sv_lib"
                   THEN createLog("INVOICE_SIGN_FAILED", req[p].user)
                   ELSE IF r = "unverified"
                        THEN createLog("LOGIN_FAILED", req[p].user)
                        ELSE UNCHANGED logs
  /\ UNCHANGED <<invoices, signatures, counter, nextChallenge, now,
                 started, signOk, transitions, issued,
                 files, sinkUp, reply>>
  /\ UNCHANGED renderVars

\* ------------------------------------------------ app/api/auth/login/route.ts
\* step 'init' (also GET/POST /api/auth/challenge): issue a challenge
LoginInit(u) ==
  /\ started < MaxRequests
  /\ started' = started + 1
  /\ IF HasCredential(u)
     THEN /\ generateAuthenticationChallenge(u)
          /\ issued' = [issued EXCEPT ![nextChallenge] = [user |-> u, purpose |-> "login"]]
          /\ UNCHANGED <<logs, reply>>
     ELSE /\ createLog("LOGIN_FAILED", u)
          /\ Refused("invalid_credentials")
          /\ UNCHANGED <<challengeStore, nextChallenge, issued>>
  /\ UNCHANGED <<invoices, signatures, counter, now, pc, req,
                 signOk, transitions, vaSuccess, vaDone,
                 files, sinkUp>>
  /\ UNCHANGED renderVars

\* GET and POST /api/auth/challenge: the user by e-mail or by the JWT, the
\* credential check, generateAuthenticationChallenge; `purpose` is only
\* returned in the response
ChallengeRoute(u, purpose) ==
  /\ started < MaxRequests
  /\ started' = started + 1
  /\ IF HasCredential(u)
     THEN /\ generateAuthenticationChallenge(u)
          /\ issued' = [issued EXCEPT ![nextChallenge] = [user |-> u, purpose |-> purpose]]
          /\ UNCHANGED reply
     ELSE /\ Refused("not_configured")
          /\ UNCHANGED <<challengeStore, nextChallenge, issued>>
  /\ UNCHANGED <<invoices, signatures, counter, now, pc, req,
                 signOk, transitions, vaSuccess, vaDone, logs,
                 files, sinkUp>>
  /\ UNCHANGED renderVars

\* step 'verify': User.findById reads the counter
StartLoginVerify(p, u) ==
  /\ CanStart(p)
  /\ started' = started + 1
  /\ pc' = [pc EXCEPT ![p] = "lv_verify"]
  /\ req' = [req EXCEPT ![p] = [IdleReq EXCEPT !.kind = "login", !.user = u,
                                               !.known = nextChallenge - 1,
                                               !.ctr = counter[u]]]
  /\ UNCHANGED <<invoices, signatures, counter, challengeStore, nextChallenge, now,
                 signOk, transitions, vaSuccess, vaDone, logs, issued,
                 files, sinkUp, reply>>
  /\ UNCHANGED renderVars

\* User.findByIdAndUpdate(userId, {counter: newCounter}), then the
\* LOGIN_SUCCESS log and the response
LvUpdateCounter(p) ==
  /\ pc[p] = "lv_counter"
  /\ counter' = [counter EXCEPT ![req[p].user] = req[p].newCounter]
  /\ createLog("LOGIN_SUCCESS", req[p].user)
  /\ Finish(p)
  /\ UNCHANGED <<invoices, signatures, challengeStore, nextChallenge, now,
                 started, signOk, transitions, vaSuccess, vaDone, issued,
                 files, sinkUp, reply>>
  /\ UNCHANGED renderVars

\* ------------------------------------------------ app/api/invoices/[id]/sign/route.ts
\* handlers that will still issue a challenge / create a Signature
PendingChallenges == Cardinality({q \in Procs : pc[q] = "si_chal"})
PendingSignatures == Cardinality({q \in Procs : pc[q] \in {"si_chal", "si_sig"}})

\* the status guards without the one for 'cancelled'
SignGuardCancelledPasses(i) == invoices[i].status \notin {"none", "signed"}

\* the status guards without the one for 'signed'
SignGuardSignedPasses(i) == invoices[i].status \notin {"none", "cancelled"}

\* POST, both steps: Invoice.findById and the status guards (lines 267-290)
SignGuard(i) == invoices[i].status \notin {"none", "signed", "cancelled"}

\* the response of the status guards when they refuse: 404, 'Invoice is
\* already signed', 'Cannot sign a cancelled invoice'
SignRefusal(i) ==
  IF invoices[i].status = "none" THEN "not_found"
  ELSE IF invoices[i].status = "signed" THEN "already_signed"
  ELSE "cancelled"

\* step 'init': the guards, User.findById and the credential check
\* (lines 309-327)
StartSignInit(p, u, i) ==
  /\ CanStart(p)
  /\ nextChallenge + PendingChallenges <= MaxChallenges
  /\ Len(signatures) + PendingSignatures < MaxSignatures
  /\ started' = started + 1
  /\ IF ~SignGuard(i)
     THEN /\ Refused(SignRefusal(i))
          /\ UNCHANGED <<pc, req>>
     ELSE IF ~HasCredential(u)
     THEN /\ Refused("not_configured")
          /\ UNCHANGED <<pc, req>>
     ELSE /\ pc' = [pc EXCEPT ![p] = "si_chal"]
          /\ req' = [req EXCEPT ![p] = [IdleReq EXCEPT !.kind = "init", !.user = u, !.id = i]]
          /\ UNCHANGED reply
  /\ UNCHANGED <<invoices, signatures, counter, challengeStore, nextChallenge, now,
                 signOk, transitions, vaSuccess, vaDone, logs, issued,
                 files, sinkUp>>
  /\ UNCHANGED renderVars

\* step 'init': generateAuthenticationChallenge(user.userId)
SiChallenge(p) ==
  /\ pc[p] = "si_chal"
  /\ generateAuthenticationChallenge(req[p].user)
  /\ issued' = [issued EXCEPT ![nextChallenge] = [user |-> req[p].user, purpose |-> "sign"]]
  /\ pc' = [pc EXCEPT ![p] = "si_sig"]
  /\ req' = [req EXCEPT ![p].stored = challengeStore'[req[p].user]]
  /\ UNCHANGED <<invoices, signatures, counter, now,
                 started, signOk, transitions, vaSuccess, vaDone, logs,
                 files, sinkUp, reply>>
  /\ UNCHANGED renderVars

\* step 'init': Signature.create with the challenge of the options, the
\* INVOICE_SIGN_INITIATED log and the response
SiCreateSignature(p) ==
  /\ pc[p] = "si_sig"
  /\ signatures' = Append(signatures,
                          [ userId |-> req[p].user,
                            invoiceId |-> req[p].id,
                            webAuthnChallengeId |-> req[p].stored.challenge,
                            signatureText |-> <<"Digitally signed by", req[p].user>>,
                            verified |-> FALSE,
                            verifiedAt |-> -1 ])
  /\ createLog("INVOICE_SIGN_INITIATED", req[p].user)
  /\ Finish(p)
  /\ UNCHANGED <<invoices, counter, challengeStore, nextChallenge, now,
                 started, signOk, transitions, vaSuccess, vaDone, issued,
                 files, sinkUp, reply>>
  /\ UNCHANGED renderVars

\* step 'verify': the guards on the invoice read at request start
StartSignVerify(p, u, i, sid) ==
  /\ CanStart(p)
  /\ started' = started + 1
  /\ IF SignGuard(i)
     THEN /\ pc' = [pc EXCEPT ![p] = "sv_sig"]
          /\ req' = [req EXCEPT ![p] = [IdleReq EXCEPT !.kind = "verify", !.user = u,
                                                       !.id = i, !.sigId = sid,
                                                       !.known = nextChallenge - 1,
                                                       !.inv = invoices[i],
                                                       !.cur = invoices[i]]]
          /\ UNCHANGED reply
     ELSE /\ Refused(SignRefusal(i))
          /\ UNCHANGED <<pc, req>>
  /\ UNCHANGED <<invoices, signatures, counter, challengeStore, nextChallenge, now,
                 signOk, transitions, vaSuccess, vaDone, logs, issued,
                 files, sinkUp>>
  /\ UNCHANGED renderVars

\* the checks on the Signature record without the one on its owner
SignatureAcceptedAnyOwner(sid, u, i) ==
  /\ sid \in 1..Len(signatures)
  /\ signatures[sid].invoiceId = i
  /\ ~signatures[sid].verified

\* the checks on the Signature record (lines 380-411)
SignatureAccepted(sid, u, i) ==
  /\ sid \in 1..Len(signatures)
  /\ signatures[sid].userId = u
  /\ signatures[sid].invoiceId = i
  /\ ~signatures[sid].verified

\* the response when a check on the Signature record fails: 404
\* 'Signature record not found', 403 'Signature does not belong to user',
\* 400 'Signature does not match invoice', 400 'Signature already verified'
SignatureRefusal(sid, u, i) ==
  IF sid \notin 1..Len(signatures) THEN "signature_not_found"
  ELSE IF signatures[sid].userId # u THEN "signature_of_other_user"
  ELSE IF signatures[sid].invoiceId # i THEN "signature_of_other_invoice"
  ELSE "signature_already_verified"

\* step 'verify': Signature.findById and its checks, then User.findById,
\* which reads the credential with its counter
SvFindSignature(p) ==
  /\ pc[p] = "sv_sig"
  /\ IF SignatureAccepted(req[p].sigId, req[p].user, req[p].id)
     THEN /\ pc' = [pc EXCEPT ![p] = "sv_verify"]
          /\ req' = [req EXCEPT ![p].ctr = counter[req[p].user]]
          /\ UNCHANGED reply
     ELSE /\ Finish(p)
          /\ Refused(SignatureRefusal(req[p].sigId, req[p].user, req[p].id))
  /\ UNCHANGED <<invoices, signatures, counter, challengeStore, nextChallenge, now,
                 started, signOk, transitions, vaSuccess, vaDone, logs, issued,
                 files, sinkUp>>
  /\ UNCHANGED renderVars

\* the sign verify step without the write of the counter
SvUpdateCounterSkipped(p) ==
  /\ pc[p] = "sv_counter"
  /\ pc' = [pc EXCEPT ![p] = "sv_sigsave"]
  /\ UNCHANGED <<invoices, signatures, counter, challengeStore, nextChallenge, now, req,
                 started, signOk, transitions, vaSuccess, vaDone, logs, issued,
                 files, sinkUp, reply>>
  /\ UNCHANGED renderVars

\* step 'verify': User.findByIdAndUpdate(userId, {counter: newCounter})
SvUpdateCounter(p) ==
  /\ pc[p] = "sv_counter"
  /\ counter' = [counter EXCEPT ![req[p].user] = req[p].newCounter]
  /\ pc' = [pc EXCEPT ![p] = "sv_sigsave"]
  /\ UNCHANGED <<invoices, signatures, challengeStore, nextChallenge, now, req,
                 started, signOk, transitions, vaSuccess, vaDone, logs, issued,
                 files, sinkUp, reply>>
  /\ UNCHANGED renderVars

\* step 'verify': signature.verified = true; signature.save(); then the
\* in-memory invoice gets status, signedBy, signedAt, signatureId
SvSaveSignature(p) ==
  /\ pc[p] = "sv_sigsave"
  /\ signatures' = [signatures EXCEPT ![req[p].sigId].verified = TRUE,
                                      ![req[p].sigId].verifiedAt = now]
  /\ pc' = [pc EXCEPT ![p] = "sv_pdf"]
  /\ req' = [req EXCEPT ![p].cur = [@ EXCEPT !.status = "signed",
                                             !.signedBy = req[p].user,
                                             !.signedAt = now,
                                             !.signatureId = req[p].sigId]]
  /\ UNCHANGED <<invoices, counter, challengeStore, nextChallenge, now,
                 started, signOk, transitions, vaSuccess, vaDone, logs, issued,
                 files, sinkUp, reply>>
  /\ UNCHANGED renderVars

\* the PDF step with a catch that logs the failure and throws it again
SvPdfRethrow(p, pdfOk) ==
  /\ pc[p] = "sv_pdf"
  /\ LET buffer == generateInvoicePDFWithGST(req[p].cur, DefaultSettings, req[p].user,
                                             req[p].cur.signedAt, NoImage, now)
     IN files' = IF pdfOk
                 THEN savePDF(files, buffer, req[p].cur.invoiceNumber, req[p].id)
                 ELSE files
  /\ IF sinkUp /\ pdfOk
     THEN /\ pc' = [pc EXCEPT ![p] = "sv_invsave"]
          /\ req' = [req EXCEPT ![p].cur.pdfUrl = Sanitize(req[p].cur.invoiceNumber)]
     ELSE Finish(p)
  /\ createLog(IF pdfOk THEN "PDF_GENERATED" ELSE "PDF_GENERATION_FAILED", req[p].user)
  /\ UNCHANGED <<invoices, signatures, counter, challengeStore, nextChallenge, now,
                 started, signOk, transitions, vaSuccess, vaDone, issued,
                 sinkUp, reply>>
  /\ UNCHANGED renderVars

\* step 'verify': generateInvoicePDFWithGST and savePDF inside try/catch; on
\* success the in-memory invoice gets its pdfUrl and PDF_GENERATED is
\* logged; a failure is caught, logged as PDF_GENERATION_FAILED, and the
\* handler goes on.  Both logs are awaited: with the sink down the
\* PDF_GENERATED log throws inside the try, the PDF_GENERATION_FAILED log
\* throws inside the catch, and the outer catch answers 500 (lines 654-673)
SvPdf(p, pdfOk) ==
  /\ pc[p] = "sv_pdf"
  /\ LET buffer == generateInvoicePDFWithGST(req[p].cur, DefaultSettings, req[p].user,
                                             req[p].cur.signedAt, NoImage, now)
     IN files' = IF pdfOk
                 THEN savePDF(files, buffer, req[p].cur.invoiceNumber, req[p].id)
                 ELSE files
  /\ IF sinkUp
     THEN /\ pc' = [pc EXCEPT ![p] = "sv_invsave"]
          /\ req' = [req EXCEPT ![p].cur.pdfUrl =
                                   IF pdfOk THEN Sanitize(req[p].cur.invoiceNumber) ELSE @]
     ELSE Finish(p)
  /\ createLog(IF pdfOk THEN "PDF_GENERATED" ELSE "PDF_GENERATION_FAILED", req[p].user)
  /\ UNCHANGED <<invoices, signatures, counter, challengeStore, nextChallenge, now,
                 started, signOk, transitions, vaSuccess, vaDone, issued,
                 sinkUp, reply>>
  /\ UNCHANGED renderVars

\* lines 555-592: the tax fields recomputed on the in-memory invoice
SignRecalc(inv) ==
  LET sum == SumTotals(inv.lineItems)
      subtotal == Money(sum)
      recalc == (inv.totalTax = 0)
      igst == IF ~recalc THEN inv.igst
              ELSE IF inv.taxType = "IGST" THEN sum * 18 ELSE 0
      cgst == IF ~recalc THEN inv.cgst
              ELSE IF inv.taxType = "IGST" THEN 0 ELSE sum * 9
      sgst == IF ~recalc THEN inv.sgst
              ELSE IF inv.taxType = "IGST" THEN 0 ELSE sum * 9
      totalTax == IF ~recalc THEN inv.totalTax
                  ELSE IF inv.taxType = "IGST" THEN igst ELSE cgst + sgst
  IN [inv EXCEPT !.subtotal = subtotal,
                 !.igst = igst, !.cgst = cgst, !.sgst = sgst,
                 !.totalTax = totalTax,
                 !.grandTotal = subtotal + totalTax - inv.discount]

\* document.save(): the paths whose value differs from the loaded one are $set
SaveModified(db, loaded, cur) ==
  [f \in InvoiceFields |-> IF cur[f] # loaded[f] THEN cur[f] ELSE db[f]]

\* step 'verify': the recalculation and invoice.save()
SvSaveInvoice(p) ==
  /\ pc[p] = "sv_invsave"
  /\ invoices' = [invoices EXCEPT
                    ![req[p].id] = SaveModified(@, req[p].inv, SignRecalc(req[p].cur))]
  /\ transitions' = [transitions EXCEPT ![req[p].id] = Count(@)]
  /\ pc' = [pc EXCEPT ![p] = "sv_done"]
  /\ UNCHANGED <<signatures, counter, challengeStore, nextChallenge, now, req,
                 started, signOk, vaSuccess, vaDone, logs, issued,
                 files, sinkUp, reply>>
  /\ UNCHANGED renderVars

\* step 'verify': the INVOICE_SIGNED log, Invoice.findById and the success
\* response; with the sink down the awaited log throws and the outer catch
\* answers 500 'Failed to sign invoice'
SvRespond(p) ==
  /\ pc[p] = "sv_done"
  /\ signOk' = [signOk EXCEPT ![req[p].id] = IF sinkUp THEN Count(@) ELSE @]
  /\ createLog("INVOICE_SIGNED", req[p].user)
  /\ Finish(p)
  /\ UNCHANGED <<invoices, signatures, counter, challengeStore, nextChallenge, now,
                 started, transitions, vaSuccess, vaDone, issued,
                 files, sinkUp, reply>>
  /\ UNCHANGED renderVars

\* ------------------------------------------------ app/api/invoices/[id]/route.ts
\* PUT: Invoice.findById (404 when there is no such invoice), the 'signed'
\* guard and the permission check
StartPut(p, u, i, b) ==
  /\ CanStart(p)
  /\ started' = started + 1
  /\ IF /\ invoices[i].status \notin {"none", "signed"}
        /\ (Role(u) = "admin" \/ invoices[i].createdBy = u)
     THEN /\ pc' = [pc EXCEPT ![p] = "put_write"]
          /\ req' = [req EXCEPT ![p] = [IdleReq EXCEPT !.kind = "put", !.user = u,
                                                       !.id = i, !.body = b]]
     ELSE UNCHANGED <<pc, req>>
  /\ UNCHANGED <<invoices, signatures, counter, challengeStore, nextChallenge, now,
                 signOk, transitions, vaSuccess, vaDone, logs, issued,
                 files, sinkUp, reply>>
  /\ UNCHANGED renderVars

\* the update document: the body, with subtotal and grandTotal added when the
\* body has lineItems (lines 74-79)
ApplyBody(doc, b) ==
  LET subtotal == Money(SumTotals(b.lineItems))
      tax == IF "tax" \in b.has THEN Money(b.tax) ELSE 0
      discount == IF "discount" \in b.has THEN Money(b.discount) ELSE 0
  IN [doc EXCEPT
        !.status = IF "status" \in b.has THEN b.status ELSE @,
        !.discount = IF "discount" \in b.has THEN Money(b.discount) ELSE @,
        !.lineItems = IF "lineItems" \in b.has THEN b.lineItems ELSE @,
        !.subtotal = IF "lineItems" \in b.has THEN subtotal ELSE @,
        !.grandTotal = IF "lineItems" \in b.has THEN subtotal + tax - discount ELSE @]

\* PUT: Invoice.findByIdAndUpdate(params.id, body), log, response
PutWrite(p) ==
  /\ pc[p] = "put_write"
  /\ invoices' = [invoices EXCEPT ![req[p].id] = ApplyBody(@, req[p].body)]
  /\ createLog("INVOICE_UPDATED", req[p].user)
  /\ Finish(p)
  /\ UNCHANGED <<signatures, counter, challengeStore, nextChallenge, now,
                 started, signOk, transitions, vaSuccess, vaDone, issued,
                 files, sinkUp, reply>>
  /\ UNCHANGED renderVars

\* ------------------------------------------------ app/api/invoices/route.ts
\* createInvoiceSchema.parse: at least one line item, quantity and rate
\* positive, total any number, taxType one of the two, discount any number
ValidCreate(data) ==
  /\ Len(data.lineItems) >= 1
  /\ \A k \in 1..Len(data.lineItems) :
       data.lineItems[k].quantity > 0 /\ data.lineItems[k].rate > 0
  /\ data.taxType \in {"IGST", "CGST_SGST"}

\* the line items of the create requests: quantity 2 at rate 100 with the
\* matching total and with another one, an item whose total is 0, and one
\* the schema rejects
ItemInputs ==
  { LineItem(2, 100, 200), LineItem(2, 100, 999), LineItem(1, 1, 0),
    LineItem(0, 1, 0) }

\* the discounts of the create requests: none, negative, larger than any total
DiscountInputs == {0, -1, 5000}

\* the bodies of the create requests
CreateInputs ==
  [ lineItems : UNION { [1..n -> ItemInputs] : n \in 0..MaxItems },
    taxType : {"IGST", "CGST_SGST"},
    discount : DiscountInputs ]

\* POST /api/invoices: parse (400 on a ZodError), the check that the number
\* is not in use (these requests carry FirstNumber), the totals,
\* Invoice.create under a fresh _id, the INVOICE_CREATED log
CreatePost(u, i, data) ==
  /\ started < MaxRequests
  /\ invoices[i].status = "none"
  /\ started' = started + 1
  /\ IF /\ ValidCreate(data)
        /\ \A j \in Documents :
             invoices[j].status = "none" \/ invoices[j].invoiceNumber # FirstNumber
     THEN /\ invoices' = [invoices EXCEPT
                            ![i] = CreateInvoice(data.lineItems, data.taxType,
                                                 data.discount, u)]
          /\ createLog("INVOICE_CREATED", u)
     ELSE UNCHANGED <<invoices, logs>>
  /\ UNCHANGED <<signatures, counter, challengeStore, nextChallenge, now, pc, req,
                 signOk, transitions, vaSuccess, vaDone, issued,
                 files, sinkUp, reply>>
  /\ UNCHANGED renderVars

\* ------------------------------------------------ app/api/pdf/[id]/route.ts
\* GET /api/pdf/:id rendering the invoice again and saving it before it
\* answers
GetPdfRenders(u, i) ==
  /\ LET inv == invoices[i]
         buffer == generateInvoicePDFWithGST(inv, DefaultSettings, inv.signedBy,
                                             inv.signedAt, NoImage, now)
     IN IF inv.status = "none" THEN Refused("not_found") /\ UNCHANGED files
        ELSE IF inv.status # "signed" THEN Refused("not_signed") /\ UNCHANGED files
        ELSE IF inv.pdfUrl = NoPdf THEN Refused("no_pdf_url") /\ UNCHANGED files
        ELSE IF Role(u) # "admin" /\ inv.createdBy # u
             THEN Refused("forbidden") /\ UNCHANGED files
        ELSE /\ files' = savePDF(files, buffer, inv.invoiceNumber, i)
             /\ reply' = [error |-> "none", bytes |-> buffer]
  /\ UNCHANGED <<invoices, signatures, counter, challengeStore, nextChallenge, now,
                 pc, req, started, signOk, transitions, vaSuccess, vaDone, logs, issued,
                 sinkUp>>
  /\ UNCHANGED renderVars

\* GET /api/pdf/:id: Invoice.findById, the status and pdfUrl guards, the
\* permission check, fs.existsSync and fs.readFileSync of public/<pdfUrl>.
\* Nothing is written; the response is kept in `reply`
GetPdf(u, i) ==
  /\ LET inv == invoices[i] IN
       IF inv.status = "none" THEN Refused("not_found")
       ELSE IF inv.status # "signed" THEN Refused("not_signed")
       ELSE IF inv.pdfUrl = NoPdf THEN Refused("no_pdf_url")
       ELSE IF Role(u) # "admin" /\ inv.createdBy # u THEN Refused("forbidden")
       ELSE IF inv.pdfUrl \notin DOMAIN files THEN Refused("file_not_found")
       ELSE reply' = [error |-> "none", bytes |-> files[inv.pdfUrl].bytes]
  /\ UNCHANGED <<invoices, signatures, counter, challengeStore, nextChallenge, now,
                 pc, req, started, signOk, transitions, vaSuccess, vaDone, logs, issued,
                 files, sinkUp>>
  /\ UNCHANGED renderVars

\* ------------------------------------------------ failures and the clock
\* an awaited call of a handler rejects (database error, crash): the outer
\* catch answers with an error and the handler does nothing more
Abort(p) ==
  /\ pc[p] # "idle"
  /\ Finish(p)
  /\ UNCHANGED <<invoices, signatures, counter, challengeStore, nextChallenge, now,
                 started, signOk, transitions, vaSuccess, vaDone, logs, issued,
                 files, sinkUp, reply>>
  /\ UNCHANGED renderVars

\* the audit sink goes down: from now on createLog throws
SinkFails ==
  /\ sinkUp
  /\ sinkUp' = FALSE
  /\ UNCHANGED <<invoices, signatures, counter, challengeStore, nextChallenge, now,
                 pc, req, started, signOk, transitions, vaSuccess, vaDone, logs, issued,
                 files, reply>>
  /\ UNCHANGED renderVars

Tick ==
  /\ now + TickMs <= MaxTicks * TickMs
  /\ now' = now + TickMs
  /\ UNCHANGED <<invoices, signatures, counter, challengeStore, nextChallenge,
                 pc, req, started, signOk, transitions, vaSuccess, vaDone, logs, issued,
                 files, sinkUp, reply>>
  /\ UNCHANGED renderVars

\* the WebAuthn helper's two steps, shared by login and sign
VerifyNext ==
  \/ \E p \in Procs : VaGet(p)
  \/ \E p \in Procs, a \in Assertions(MaxChallenges) : VaLib(p, a)

\* the login flow
AuthNext ==
  \/ \E u \in Users : LoginInit(u)
  \/ \E p \in Procs, u \in Users : StartLoginVerify(p, u)
  \/ \E p \in Procs : LvUpdateCounter(p)

\* the sign flow and the invoice update
SignNext ==
  \/ \E p \in Procs, u \in Users, i \in Invoices : StartSignInit(p, u, i)
  \/ \E p \in Procs : SiChallenge(p)
  \/ \E p \in Procs : SiCreateSignature(p)
  \/ \E p \in Procs, u \in Users, i \in Invoices, sid \in 1..MaxSignatures :
        StartSignVerify(p, u, i, sid)
  \/ \E p \in Procs : SvFindSignature(p)
  \/ \E p \in Procs : SvUpdateCounter(p)
  \/ \E p \in Procs : SvSaveSignature(p)
  \/ \E p \in Procs, pdfOk \in BOOLEAN : SvPdf(p, pdfOk)
  \/ \E p \in Procs : SvSaveInvoice(p)
  \/ \E p \in Procs : SvRespond(p)
  \/ \E p \in Procs, u \in Users, i \in Invoices, b \in Bodies : StartPut(p, u, i, b)
  \/ \E p \in Procs : PutWrite(p)

Next ==
  \/ VerifyNext
  \/ AuthNext
  \/ SignNext
  \/ \E p \in Procs : Abort(p)
  \/ Tick

\* every request of the model
Spec == Init /\ [][Next]_vars

NextAuth ==
  \/ VerifyNext
  \/ AuthNext
  \/ \E p \in Procs : Abort(p)
  \/ Tick

\* the requests of the login flow alone
SpecAuth == Init /\ [][NextAuth]_vars

NextSign ==
  \/ VerifyNext
  \/ SignNext
  \/ \E p \in Procs : Abort(p)

\* the requests on invoices alone: sign init / verify and PUT
SpecSign == Init /\ [][NextSign]_vars

\* one handler: the requests are served one after the other
SeqProcs == {1}

\* the users who create invoices
Creators == {"u1"}

NextSeq ==
  \/ \E p \in SeqProcs : VaGet(p)
  \/ \E p \in SeqProcs, a \in Assertions(MaxChallenges) : VaLib(p, a)
  \/ \E u \in Users : LoginInit(u)
  \/ \E p \in SeqProcs, u \in Users : StartLoginVerify(p, u)
  \/ \E p \in SeqProcs : LvUpdateCounter(p)
  \/ \E p \in SeqProcs, u \in Users, i \in Invoices : StartSignInit(p, u, i)
  \/ \E p \in SeqProcs : SiChallenge(p)
  \/ \E p \in SeqProcs : SiCreateSignature(p)
  \/ \E p \in SeqProcs, u \in Users, i \in Invoices, sid \in 1..MaxSignatures :
        StartSignVerify(p, u, i, sid)
  \/ \E p \in SeqProcs : SvFindSignature(p)
  \/ \E p \in SeqProcs : SvUpdateCounter(p)
  \/ \E p \in SeqProcs : SvSaveSignature(p)
  \/ \E p \in SeqProcs, pdfOk \in BOOLEAN : SvPdf(p, pdfOk)
  \/ \E p \in SeqProcs : SvSaveInvoice(p)
  \/ \E p \in SeqProcs : SvRespond(p)
  \/ \E p \in SeqProcs, u \in Users, i \in Invoices, b \in Bodies : StartPut(p, u, i, b)
  \/ \E p \in SeqProcs : PutWrite(p)
  \/ \E p \in SeqProcs : Abort(p)
  \/ Tick

\* every request of the model, served by one handler, with the clock and
\* with a crash possible at every await
SpecSeq == Init /\ [][NextSeq]_vars

NextOne ==
  \/ \E p \in SeqProcs : VaGet(p)
  \/ \E p \in SeqProcs, a \in Assertions(MaxChallenges) : VaLib(p, a)
  \/ \E u \in Creators : LoginInit(u)
  \/ \E p \in SeqProcs, u \in Creators : StartLoginVerify(p, u)
  \/ \E p \in SeqProcs : LvUpdateCounter(p)
  \/ \E p \in SeqProcs, u \in Creators, i \in Invoices : StartSignInit(p, u, i)
  \/ \E p \in SeqProcs : SiChallenge(p)
  \/ \E p \in SeqProcs : SiCreateSignature(p)
  \/ \E p \in SeqProcs, u \in Creators, i \in Invoices, sid \in 1..MaxSignatures :
        StartSignVerify(p, u, i, sid)
  \/ \E p \in SeqProcs : SvFindSignature(p)
  \/ \E p \in SeqProcs : SvUpdateCounter(p)
  \/ \E p \in SeqProcs : SvSaveSignature(p)
  \/ \E p \in SeqProcs, pdfOk \in BOOLEAN : SvPdf(p, pdfOk)
  \/ \E p \in SeqProcs : SvSaveInvoice(p)
  \/ \E p \in SeqProcs : SvRespond(p)
  \/ \E p \in SeqProcs : Abort(p)
  \/ Tick

\* the login and sign requests of one user, served by one handler, with the
\* clock and with a crash possible at every await
SpecOne == Init /\ [][NextOne]_vars

NextArtifact ==
  \/ \E p \in SeqProcs, u \in Creators, i \in Invoices : StartSignInit(p, u, i)
  \/ \E p \in SeqProcs : SiChallenge(p)
  \/ \E p \in SeqProcs : SiCreateSignature(p)
  \/ \E p \in SeqProcs, u \in Creators, i \in Invoices, sid \in 1..MaxSignatures :
        StartSignVerify(p, u, i, sid)
  \/ \E p \in SeqProcs : SvFindSignature(p)
  \/ \E p \in SeqProcs : VaGet(p)
  \/ \E p \in SeqProcs, a \in Assertions(MaxChallenges) : VaLib(p, a)
  \/ \E p \in SeqProcs : SvUpdateCounter(p)
  \/ \E p \in SeqProcs : SvSaveSignature(p)
  \/ \E p \in SeqProcs, pdfOk \in BOOLEAN : SvPdf(p, pdfOk)
  \/ \E p \in SeqProcs : SvSaveInvoice(p)
  \/ \E p \in SeqProcs : SvRespond(p)
  \/ \E p \in SeqProcs, u \in Creators, i \in Invoices, b \in Bodies : StartPut(p, u, i, b)
  \/ \E p \in SeqProcs : PutWrite(p)
  \/ \E u \in Creators, i \in Invoices : GetPdf(u, i)
  \/ \E p \in SeqProcs : Abort(p)
  \/ Tick

\* the sign, update and download requests of the creator, served by one
\* handler; a request that can be served is served, and the clients go on
\* sending requests as long as any is left to send
SpecArtifact == Init /\ [][NextArtifact]_vars /\ WF_vars(NextArtifact)

NextSink ==
  \/ \E p \in SeqProcs, u \in Creators, i \in Invoices : StartSignInit(p, u, i)
  \/ \E p \in SeqProcs : SiChallenge(p)
  \/ \E p \in SeqProcs : SiCreateSignature(p)
  \/ \E p \in SeqProcs, u \in Creators, i \in Invoices, sid \in 1..MaxSignatures :
        StartSignVerify(p, u, i, sid)
  \/ \E p \in SeqProcs : SvFindSignature(p)
  \/ \E p \in SeqProcs : VaGet(p)
  \/ \E p \in SeqProcs, a \in Assertions(MaxChallenges) : VaLib(p, a)
  \/ \E p \in SeqProcs : SvUpdateCounter(p)
  \/ \E p \in SeqProcs : SvSaveSignature(p)
  \/ \E p \in SeqProcs, pdfOk \in BOOLEAN : SvPdf(p, pdfOk)
  \/ \E p \in SeqProcs : SvSaveInvoice(p)
  \/ \E p \in SeqProcs : SvRespond(p)
  \/ SinkFails
  \/ Tick

\* the sign requests of one user, served by one handler; the only failure
\* is that of the audit sink, which can go down at any moment
SpecSink == Init /\ [][NextSink]_vars

NextCred ==
  \/ \E u \in Accounts, purpose \in {"login", "sign"} : ChallengeRoute(u, purpose)
  \/ \E p \in SeqProcs, u \in Accounts, i \in Invoices : StartSignInit(p, u, i)
  \/ \E p \in SeqProcs : SiChallenge(p)
  \/ \E p \in SeqProcs : SiCreateSignature(p)
  \/ \E p \in SeqProcs : Abort(p)
  \/ Tick

\* the requests that issue a challenge (GET / POST /api/auth/challenge and
\* the sign init step), sent by users with and without a credential
SpecCred == Init /\ [][NextCred]_vars

\* the renderer called with the arguments in renderArgs at the present
\* time; with a signature image URL the image is fetched first
RenderCall ==
  /\ Len(renderOut) < MaxRenders
  /\ renderOut' = Append(renderOut,
                         generateInvoicePDFWithGST(
                           renderArgs.invoice, renderArgs.settings,
                           renderArgs.signedBy, renderArgs.signedAt,
                           IF renderArgs.withImage THEN remote ELSE NoImage,
                           now))
  /\ UNCHANGED <<invoices, signatures, counter, challengeStore, nextChallenge, now,
                 pc, req, started, signOk, transitions, vaSuccess, vaDone, logs, issued,
                 files, sinkUp, reply, renderArgs, remote>>

\* the file behind the signature image URL is replaced
RemoteChanges ==
  /\ remote = "img1"
  /\ remote' = "img2"
  /\ UNCHANGED <<invoices, signatures, counter, challengeStore, nextChallenge, now,
                 pc, req, started, signOk, transitions, vaSuccess, vaDone, logs, issued,
                 files, sinkUp, reply, renderArgs, renderOut>>

\* the frozen invoices handed to the renderer: what the valid create
\* requests make, signed by `u` at `t`
FrozenInvoices ==
  { [CreateInvoice(data.lineItems, data.taxType, data.discount, u)
       EXCEPT !.status = "signed", !.signedBy = u, !.signedAt = t, !.signatureId = 1] :
      data \in {c \in CreateInputs : ValidCreate(c)}, u \in Creators, t \in {0} }

InitRender ==
  /\ invoices = [i \in Documents |-> IF i \in Invoices THEN InitialInvoice ELSE NoInvoice]
  /\ signatures = <<>>
  /\ counter = [u \in Users |-> 0]
  /\ challengeStore = [u \in Accounts |-> NoChallenge]
  /\ nextChallenge = 1
  /\ now = 0
  /\ pc = [p \in Procs |-> "idle"]
  /\ req = [p \in Procs |-> IdleReq]
  /\ started = 0
  /\ signOk = [i \in Documents |-> 0]
  /\ transitions = [i \in Documents |-> 0]
  /\ vaSuccess = [c \in 1..(MaxChallenges + 1) |-> 0]
  /\ vaDone = {}
  /\ logs = {}
  /\ issued = [c \in 1..MaxChallenges |-> NotIssued]
  /\ files = NoFiles
  /\ sinkUp = TRUE
  /\ reply = NoReply
  /\ renderArgs \in [ invoice : FrozenInvoices, settings : {"s1", "s2"},
                       signedBy : Creators, signedAt : {0}, withImage : BOOLEAN ]
  /\ renderOut = <<>>
  /\ remote = "img1"

NextRender ==
  \/ RenderCall
  \/ RemoteChanges
  \/ Tick

\* generateInvoicePDFWithGST called several times with the same arguments,
\* while the clock and the remote image may change between the calls
SpecRender == InitRender /\ [][NextRender]_vars

\* the number of the second invoice: one that differs from FirstNumber
\* only in a character outside [a-zA-Z0-9-], and one that shares nothing
SecondNumbers == { <<"A", "_", "1">>, <<"B", "-", "2">> }

\* two invoices of u1 exist, with distinct numbers and distinct line items
InitTwo ==
  /\ \E n \in SecondNumbers :
       invoices = [i \in Documents |->
                     IF i \in Invoices THEN InitialInvoice
                     ELSE [CreateInvoice(<<LineItem(1, 5, 5)>>, "CGST_SGST", 0, "u1")
                             EXCEPT !.invoiceNumber = n]]
  /\ signatures = <<>>
  /\ counter = [u \in Users |-> 0]
  /\ challengeStore = [u \in Accounts |-> NoChallenge]
  /\ nextChallenge = 1
  /\ now = 0
  /\ pc = [p \in Procs |-> "idle"]
  /\ req = [p \in Procs |-> IdleReq]
  /\ started = 0
  /\ signOk = [i \in Documents |-> 0]
  /\ transitions = [i \in Documents |-> 0]
  /\ vaSuccess = [c \in 1..(MaxChallenges + 1) |-> 0]
  /\ vaDone = {}
  /\ logs = {}
  /\ issued = [c \in 1..MaxChallenges |-> NotIssued]
  /\ files = NoFiles
  /\ sinkUp = TRUE
  /\ reply = NoReply
  /\ renderArgs = NoRenderArgs
  /\ renderOut = <<>>
  /\ remote = "img1"

NextTwo ==
  \/ \E p \in SeqProcs, u \in Creators, i \in Documents : StartSignInit(p, u, i)
  \/ \E p \in SeqProcs : SiChallenge(p)
  \/ \E p \in SeqProcs : SiCreateSignature(p)
  \/ \E p \in SeqProcs, u \in Creators, i \in Documents, sid \in 1..MaxSignatures :
        StartSignVerify(p, u, i, sid)
  \/ \E p \in SeqProcs : SvFindSignature(p)
  \/ \E p \in SeqProcs : VaGet(p)
  \/ \E p \in SeqProcs, a \in Assertions(MaxChallenges) : VaLib(p, a)
  \/ \E p \in SeqProcs : SvUpdateCounter(p)
  \/ \E p \in SeqProcs : SvSaveSignature(p)
  \/ \E p \in SeqProcs, pdfOk \in BOOLEAN : SvPdf(p, pdfOk)
  \/ \E p \in SeqProcs : SvSaveInvoice(p)
  \/ \E p \in SeqProcs : SvRespond(p)
  \/ \E p \in SeqProcs : Abort(p)

\* the sign requests of the creator on two invoices, served by one handler,
\* with a crash possible at every await
SpecTwo == InitTwo /\ [][NextTwo]_vars

NextChecks ==
  \/ \E p \in SeqProcs, u \in Creators, i \in Invoices : StartSignInit(p, u, i)
  \/ \E p \in SeqProcs : SiChallenge(p)
  \/ \E p \in SeqProcs : SiCreateSignature(p)
  \/ \E p \in SeqProcs, u \in Users, i \in Documents, sid \in 1..MaxSignatures :
        StartSignVerify(p, u, i, sid)
  \/ \E p \in SeqProcs : SvFindSignature(p)
  \/ \E p \in SeqProcs : VaGet(p)
  \/ \E p \in SeqProcs, a \in Assertions(MaxChallenges) : VaLib(p, a)
  \/ \E p \in SeqProcs : SvUpdateCounter(p)
  \/ \E p \in SeqProcs : SvSaveSignature(p)
  \/ \E p \in SeqProcs, pdfOk \in BOOLEAN : SvPdf(p, pdfOk)
  \/ \E p \in SeqProcs : SvSaveInvoice(p)
  \/ \E p \in SeqProcs : SvRespond(p)
  \/ \E p \in SeqProcs : Abort(p)

\* sign init by the creator on the first invoice; verify requests by either
\* user, on either invoice, naming any Signature; one handler, with a crash
\* possible at every await
SpecChecks == InitTwo /\ [][NextChecks]_vars

InitCreate ==
  /\ invoices = [i \in Documents |-> NoInvoice]
  /\ signatures = <<>>
  /\ counter = [u \in Users |-> 0]
  /\ challengeStore = [u \in Accounts |-> NoChallenge]
  /\ nextChallenge = 1
  /\ now = 0
  /\ pc = [p \in Procs |-> "idle"]
  /\ req = [p \in Procs |-> IdleReq]
  /\ started = 0
  /\ signOk = [i \in Documents |-> 0]
  /\ transitions = [i \in Documents |-> 0]
  /\ vaSuccess = [c \in 1..(MaxChallenges + 1) |-> 0]
  /\ vaDone = {}
  /\ logs = {}
  /\ issued = [c \in 1..MaxChallenges |-> NotIssued]
  /\ files = NoFiles
  /\ sinkUp = TRUE
  /\ reply = NoReply
  /\ renderArgs = NoRenderArgs
  /\ renderOut = <<>>
  /\ remote = "img1"

NextCreate ==
  \/ \E u \in Creators, i \in Invoices, data \in CreateInputs : CreatePost(u, i, data)
  \/ \E p \in SeqProcs, u \in Creators, i \in Invoices, b \in Bodies : StartPut(p, u, i, b)
  \/ \E p \in SeqProcs : PutWrite(p)
  \/ \E p \in SeqProcs, u \in Creators, i \in Invoices : StartSignInit(p, u, i)
  \/ \E p \in SeqProcs : SiChallenge(p)
  \/ \E p \in SeqProcs : SiCreateSignature(p)
  \/ \E p \in SeqProcs, u \in Creators, i \in Invoices, sid \in 1..MaxSignatures :
        StartSignVerify(p, u, i, sid)
  \/ \E p \in SeqProcs : SvFindSignature(p)
  \/ \E p \in SeqProcs : VaGet(p)
  \/ \E p \in SeqProcs, a \in Assertions(MaxChallenges) : VaLib(p, a)
  \/ \E p \in SeqProcs : SvUpdateCounter(p)
  \/ \E p \in SeqProcs : SvSaveSignature(p)
  \/ \E p \in SeqProcs, pdfOk \in BOOLEAN : SvPdf(p, pdfOk)
  \/ \E p \in SeqProcs : SvSaveInvoice(p)
  \/ \E p \in SeqProcs : SvRespond(p)

\* the life of an invoice from its creation: create, update and sign
\* requests of its creator, served one after the other
SpecCreate == InitCreate /\ [][NextCreate]_vars

\* ------------------------------------------------------------ properties
VerifiedSignatures(i) ==
  {k \in 1..Len(signatures) : signatures[k].invoiceId = i /\ signatures[k].verified}

\* C1: of the concurrent sign verify requests on a draft invoice exactly one
\* transitions it to signed and is answered with success; no second request
\* observes draft and writes the transition.
C1_ExactlyOneSignSucceeds ==
  \A i \in Invoices : transitions[i] <= 1 /\ signOk[i] <= 1

\* C2: in every reachable state every invoice has at most one Signature
\* record with verified = true.
C2_AtMostOneVerifiedSignature ==
  \A i \in Invoices : Cardinality(VerifiedSignatures(i)) <= 1

\* C3: a challenge serves one verification attempt whatever its outcome: no
\* verifyAuthentication call gets past the store check on a challenge over
\* which an earlier call has already returned or thrown.
C3_ChallengeSingleAttempt ==
  \A p \in Procs : pc[p] \in {"sv_lib", "lv_lib"} => ~req[p].reuse

\* C4: the check of the stored challenge and its removal are one atomic
\* test-and-clear: at most one verifyAuthentication call succeeds per challenge.
C4_ChallengeConsumedOnce ==
  \A c \in 1..MaxChallenges : vaSuccess[c] <= 1

\* C5: the stored counter of a user never decreases: every write stores a
\* value greater than or equal to the value stored before it.
C5_CounterNeverDecreases ==
  [][\A u \in Users : counter'[u] >= counter[u]]_vars

\* C6: a verification is accepted only if the counter of the assertion is
\* strictly greater than the credential's stored counter, unless both are zero.
C6_AcceptedCounterAdvances ==
  \A p \in Procs :
    pc[p] \in {"sv_counter", "lv_counter"} =>
      \/ req[p].newCounter > req[p].acceptStored
      \/ (req[p].newCounter = 0 /\ req[p].acceptStored = 0)

\* C7: Signature.verified and invoice.status change together: a Signature
\* with verified = true exists for an invoice only if the invoice is signed.
C7_VerifiedOnlyIfSigned ==
  \A k \in 1..Len(signatures) :
    signatures[k].verified => invoices[signatures[k].invoiceId].status = "signed"

\* C8: an invoice becomes signed only through the sign verify step: a signed
\* invoice has a signatureId that refers to a Signature with verified = true.
C8_SignedOnlyBySignVerify ==
  \A i \in Invoices :
    invoices[i].status = "signed" =>
      /\ invoices[i].signatureId \in 1..Len(signatures)
      /\ signatures[invoices[i].signatureId].verified

\* C9: signed and cancelled are terminal: once the persisted status of an
\* invoice is signed or cancelled no request changes it.
C9_TerminalStatus ==
  [][\A i \in Invoices :
       invoices[i].status \in {"signed", "cancelled"} =>
         invoices'[i].status = invoices[i].status]_vars

Totals(inv) ==
  <<inv.lineItems, inv.subtotal, inv.igst, inv.cgst, inv.sgst, inv.totalTax,
    inv.discount, inv.grandTotal>>

\* C10: once the sign route has persisted an invoice as signed, its line
\* items and totals never change, also when a PUT runs concurrently with
\* the sign verify request.
C10_SignedTotalsImmutable ==
  [][\A i \in Invoices :
       (invoices[i].status = "signed" /\ transitions[i] >= 1) =>
         Totals(invoices'[i]) = Totals(invoices[i])]_vars

\* 18% of an amount, stated without division
IsEighteenPercent(tax, amount) == tax * 100 = amount * 18

\* the totals of a document follow from its line items and its discount
TotalsConsistent(inv) ==
  /\ inv.subtotal = Money(SumTotals(inv.lineItems))
  /\ IsEighteenPercent(inv.totalTax, inv.subtotal)
  /\ inv.grandTotal = inv.subtotal + inv.totalTax - inv.discount

\* C11: every invoice always satisfies grandTotal = subtotal + totalTax -
\* discount, with subtotal and totalTax derived from its current line items:
\* after create, after every PUT that changes lineItems or discount, and
\* after sign.
C11_TotalsEquation ==
  \A i \in Invoices :
    invoices[i].status # "none" => TotalsConsistent(invoices[i])

\* C12: a sign verify request that finds stored totals which disagree with
\* their re-derivation is refused: none of its steps changes the invoice,
\* a Signature record or a counter.
C12_SignRefusedOnMismatch ==
  [][\A p \in Procs :
       (/\ req[p].kind = "verify"
        /\ pc[p] \notin {"idle", "sv_sig"}
        /\ pc'[p] # pc[p]
        /\ ~TotalsConsistent(req[p].inv))
       => /\ invoices' = invoices
          /\ signatures' = signatures
          /\ counter' = counter]_vars

\* an invoice as the create request left it: no PUT, no sign has written it
AsCreated(i) ==
  /\ invoices[i].status = "draft"
  /\ \A e \in logs : e.action # "INVOICE_UPDATED"

RECURSIVE SumProducts(_)
\* the sum of quantity x rate over the line items
SumProducts(items) ==
  IF items = <<>> THEN 0
  ELSE Head(items).quantity * Head(items).rate + SumProducts(Tail(items))

\* C13: for every created invoice each line total is quantity x rate, the
\* subtotal is the sum of those products and totalTax is 18% of it, whatever
\* `total` the client sent (quantity 2 at rate 100 gives 200 / 36 / 236).
C13_LineTotalsFromQuantityRate ==
  \A i \in Invoices :
    AsCreated(i) =>
      LET inv == invoices[i] IN
        /\ \A k \in 1..Len(inv.lineItems) :
             inv.lineItems[k].total = inv.lineItems[k].quantity * inv.lineItems[k].rate
        /\ inv.subtotal = Money(SumProducts(inv.lineItems))
        /\ IsEighteenPercent(inv.totalTax, inv.subtotal)

\* the other tax mode
OtherTaxType(t) == IF t = "IGST" THEN "CGST_SGST" ELSE "IGST"

\* C14: IGST (one levy of 18%) and CGST_SGST (two of 9%) give the same
\* totalTax and grandTotal for the same line items and discount: a created
\* invoice has the totals the create request gives in the other mode, and
\* an invoice saved by the sign route has the totals the recalculation
\* gives in the other mode.
C14_TaxModesAgree ==
  /\ \A i \in Invoices :
       AsCreated(i) =>
         LET inv == invoices[i]
             other == CreateInvoice(inv.lineItems, OtherTaxType(inv.taxType), 0,
                                    inv.createdBy)
         IN /\ inv.totalTax = other.totalTax
            /\ inv.grandTotal = other.grandTotal - inv.discount
  /\ \A p \in SeqProcs :
       pc[p] = "sv_done" =>
         LET inv == invoices[req[p].id]
             other == SignRecalc([req[p].cur EXCEPT
                                    !.taxType = OtherTaxType(req[p].cur.taxType)])
         IN /\ inv.totalTax = other.totalTax
            /\ inv.grandTotal = other.grandTotal

\* C14 (case): the sign route has recalculated the tax of a CGST_SGST
\* invoice whose stored totalTax was 0 and whose line items are not
C14_Witness ==
  \E p \in SeqProcs :
    /\ pc[p] = "sv_done"
    /\ req[p].inv.totalTax = 0
    /\ invoices[req[p].id].taxType = "CGST_SGST"
    /\ invoices[req[p].id].totalTax > 0
    /\ invoices[req[p].id].cgst = invoices[req[p].id].sgst

\* C15: grandTotal is never negative and a negative discount is never
\* accepted: a discount above subtotal + totalTax leaves grandTotal at 0.
C15_GrandTotalNotNegative ==
  \A i \in Invoices :
    invoices[i].status # "none" =>
      /\ invoices[i].discount >= 0
      /\ invoices[i].grandTotal >= 0
      /\ (invoices[i].discount > invoices[i].subtotal + invoices[i].totalTax
            => invoices[i].grandTotal = 0)

\* the store check of verifyAuthentication passes for user u
ChallengeUsable(u) ==
  challengeStore[u] # NoChallenge /\ now <= challengeStore[u].expiresAt

\* C16: a verification whose challenge is missing, already consumed, or past
\* its expiresAt while still in the store fails in the same way: the
\* handler ends at the store check, the library is not called, and counter,
\* Signature records, invoices and the store are left as they were; the
\* sign route logs INVOICE_SIGN_FAILED and nothing else.
C16_MissingOrExpiredChallengeFails ==
  [][\A p \in Procs :
       (/\ pc[p] \in {"sv_verify", "lv_verify"}
        /\ pc'[p] # pc[p]
        /\ ~ChallengeUsable(req[p].user))
       => /\ pc'[p] = "idle"
          /\ counter' = counter
          /\ signatures' = signatures
          /\ invoices' = invoices
          /\ challengeStore' = challengeStore
          /\ vaDone' = vaDone
          /\ signOk' = signOk
          /\ logs' \subseteq
               logs \cup {[action |-> "INVOICE_SIGN_FAILED", userId |-> req[p].user]}]_vars

\* C16 (case): a sign verify request has failed at the store check on a
\* challenge that is still in the store and past its expiresAt
C16_Witness ==
  \E u \in Users :
    /\ [action |-> "INVOICE_SIGN_FAILED", userId |-> u] \in logs
    /\ vaDone = {}
    /\ challengeStore[u] # NoChallenge
    /\ now > challengeStore[u].expiresAt
    /\ \A k \in 1..Len(signatures) : ~signatures[k].verified
    /\ \A i \in Invoices : invoices[i].status = "draft"

\* C17: a challenge belongs to one user and one purpose: a sign verification
\* consumes only a challenge issued by sign init to that user, a login
\* verification only one issued by login init.
C17_ChallengeBoundToPurpose ==
  \A p \in Procs :
    /\ pc[p] = "sv_counter" =>
         issued[req[p].stored.challenge] = [user |-> req[p].user, purpose |-> "sign"]
    /\ pc[p] = "lv_counter" =>
         issued[req[p].stored.challenge] = [user |-> req[p].user, purpose |-> "login"]

\* an assertion over challenge c passes the store check
ChallengeValid(c) ==
  \E u \in Users :
    challengeStore[u].challenge = c /\ now <= challengeStore[u].expiresAt

\* C18: last-issued-wins holds per (user, purpose): when a challenge is
\* issued, the valid challenge of the same user and purpose stops being
\* valid, and the valid challenge of that user for the other purpose stays
\* valid.
C18_LastIssuedWinsPerPurpose ==
  [][nextChallenge' > nextChallenge =>
       \A c \in 1..MaxChallenges :
         (ChallengeValid(c) /\ issued[c].user = issued'[nextChallenge].user)
         => IF issued[c].purpose = issued'[nextChallenge].purpose
            THEN ~ChallengeValid(c)'
            ELSE ChallengeValid(c)']_vars

\* C19: on a successful sign verification the new counter is persisted
\* before the Signature is marked verified and before the invoice is
\* written as signed: every step that sets verified, and every step that
\* sets status signed, is taken by a request whose assertion counter is
\* already the stored counter of its user (a crash may fall between any two
\* steps).
C19_CounterBeforeVerifiedAndSigned ==
  [][/\ \A k \in 1..Len(signatures) :
          (~signatures[k].verified /\ signatures'[k].verified)
          => \E p \in Procs :
               /\ req[p].sigId = k
               /\ req[p].user = signatures[k].userId
               /\ counter[req[p].user] = req[p].newCounter
     /\ \A i \in Invoices :
          (invoices[i].status # "signed" /\ invoices'[i].status = "signed")
          => \E p \in Procs :
               /\ req[p].id = i
               /\ invoices'[i].signedBy = req[p].user
               /\ signatures[req[p].sigId].verified
               /\ counter[req[p].user] = req[p].newCounter]_vars

\* C19 (case): a sign verification with a non-zero assertion counter has
\* verified its Signature and signed the invoice
C19_Witness ==
  \E k \in 1..Len(signatures) :
    /\ signatures[k].verified
    /\ counter[signatures[k].userId] > 0
    /\ invoices[signatures[k].invoiceId].status = "signed"
    /\ invoices[signatures[k].invoiceId].signatureId = k

\* C20: when PDF generation or saving fails in a sign verify request whose
\* assertion verified, the failure is logged as PDF_GENERATION_FAILED and
\* the request goes on: invoice.save() persists status signed with
\* signedBy, signedAt and signatureId, the Signature stays verified, and
\* the success response is sent on that state.
C20_PdfFailureStillSigns ==
  [][\A p \in Procs :
       LET failed == [action |-> "PDF_GENERATION_FAILED", userId |-> req[p].user]
           noPdf == req[p].cur.pdfUrl = NoPdf
       IN /\ (pc[p] = "sv_pdf" /\ failed \notin logs /\ failed \in logs')
             => /\ pc'[p] = "sv_invsave"
                /\ signatures'[req[p].sigId].verified
          /\ (pc[p] = "sv_invsave" /\ noPdf /\ pc'[p] = "sv_done")
             => /\ failed \in logs'
                /\ invoices'[req[p].id].status = "signed"
                /\ invoices'[req[p].id].signedBy = req[p].user
                /\ invoices'[req[p].id].signedAt = req[p].cur.signedAt
                /\ invoices'[req[p].id].signatureId = req[p].sigId
                /\ signatures'[req[p].sigId].verified
          /\ (pc[p] = "sv_done" /\ noPdf /\ signOk'[req[p].id] # signOk[req[p].id])
             => /\ failed \in logs'
                /\ invoices'[req[p].id].status = "signed"
                /\ signatures'[req[p].sigId].verified]_vars

\* C20 (case): a sign verify request whose PDF step failed has signed the
\* invoice and answered with success
C20_Witness ==
  \E i \in Invoices, u \in Users :
    /\ [action |-> "PDF_GENERATION_FAILED", userId |-> u] \in logs
    /\ [action |-> "PDF_GENERATED", userId |-> u] \notin logs
    /\ invoices[i].status = "signed"
    /\ invoices[i].signedBy = u
    /\ invoices[i].pdfUrl = NoPdf
    /\ invoices[i].signatureId \in 1..Len(signatures)
    /\ signatures[invoices[i].signatureId].verified
    /\ signOk[i] = 1
\* C21: a signed invoice whose artifact is missing (pdfUrl empty) gets its
\* artifact later without being signed again: some GET /api/pdf/:id is
\* eventually answered with the PDF
C21_ArtifactEventuallyServed ==
  \A i \in Invoices :
    [](transitions[i] > 0 /\ invoices[i].status = "signed" /\ invoices[i].pdfUrl = NoPdf
         => <>(reply.error = "none" /\ reply.bytes # NoBytes))

\* what the routes do instead: no request writes the pdfUrl of a signed
\* invoice, so an artifact that is missing stays missing
ArtifactStaysMissing ==
  [][\A i \in Invoices :
       invoices[i].status = "signed" /\ invoices[i].pdfUrl = NoPdf
         => invoices'[i].status = "signed" /\ invoices'[i].pdfUrl = NoPdf]_vars

\* C22: a throwing createLog never fails the signing and never changes what
\* is committed: a verify step whose assertion was accepted ends with the
\* invoice signed, its Signature verified and the success response, whether
\* the sink works or not
C22_AuditFailureHarmless ==
  [][\A p \in SeqProcs :
       pc[p] \in {"sv_counter", "sv_sigsave", "sv_pdf", "sv_invsave", "sv_done"}
       /\ pc'[p] = "idle"
         => /\ signOk' = [signOk EXCEPT ![req[p].id] = Count(@)]
            /\ invoices'[req[p].id].status = "signed"
            /\ signatures'[req[p].sigId].verified]_vars

\* a request other than a PUT is taken in this step
NonPutRequest ==
  /\ started' # started
  /\ \A p \in Procs : pc'[p] = "put_write" => pc[p] = "put_write"

\* C23: a sign request (init or verify) on a cancelled invoice is answered
\* with the cancelled error and changes nothing: the invoice stays cancelled,
\* no challenge is issued, no Signature is created or modified, the counter
\* keeps its value, and no handler goes on with the request
C23_CancelledRefusesSign ==
  [][\A i \in Invoices :
       invoices[i].status = "cancelled" /\ NonPutRequest
         => /\ reply'.error = "cancelled"
            /\ UNCHANGED <<invoices, signatures, counter, challengeStore,
                           nextChallenge, issued, pc, req, files>>]_vars

C23_Witness ==
  \E i \in Invoices :
    /\ invoices[i].status = "cancelled"
    /\ reply.error = "cancelled"
    /\ Len(signatures) = 1 /\ ~signatures[1].verified
    /\ \A p \in Procs : pc[p] = "idle"

\* C24: a sign request (init or verify) on an invoice that is saved as
\* signed is answered with the already-signed error and changes nothing:
\* the verified Signature keeps every field, the invoice keeps signedBy,
\* signedAt and signatureId, and no handler goes on with the request
C24_SignedRefusesSign ==
  [][\A i \in Invoices :
       invoices[i].status = "signed" /\ started' # started
         => /\ reply'.error = "already_signed"
            /\ UNCHANGED <<invoices, signatures, counter, challengeStore,
                           nextChallenge, issued, pc, req, files>>]_vars

C24_Witness ==
  \E i \in Invoices :
    /\ invoices[i].status = "signed"
    /\ transitions[i] = 1
    /\ reply.error = "already_signed"
    /\ invoices[i].signatureId \in 1..Len(signatures)
    /\ signatures[invoices[i].signatureId].verified
    /\ signatures[invoices[i].signatureId].verifiedAt = invoices[i].signedAt

C26_GetPdfIdempotent ==
  [][/\ (reply'.bytes # NoBytes /\ reply' # reply)
          => /\ UNCHANGED <<invoices, signatures, counter, challengeStore,
                            nextChallenge, files, logs, pc, req>>
             /\ \E i \in Invoices :
                  /\ invoices[i].status = "signed"
                  /\ invoices[i].pdfUrl \in DOMAIN files
                  /\ reply'.bytes = files[invoices[i].pdfUrl].bytes
     /\ (reply.bytes # NoBytes /\ reply'.bytes # NoBytes /\ UNCHANGED files)
          => reply'.bytes = reply.bytes]_vars

C26_Witness ==
  \E i \in Invoices :
    /\ invoices[i].status = "signed"
    /\ invoices[i].pdfUrl \in DOMAIN files
    /\ reply.error = "none"
    /\ reply.bytes = files[invoices[i].pdfUrl].bytes
    /\ now > invoices[i].signedAt

\* C27: rendering is deterministic: all calls of the renderer with the same
\* frozen invoice, settings, signer name and signedAt return the same bytes
C27_RenderDeterministic ==
  \A j, k \in 1..Len(renderOut) : renderOut[j] = renderOut[k]

\* C28: a verified Signature records the challenge that was used: the
\* challenge over which the accepted assertion was verified is the
\* webAuthnChallengeId of the Signature the verify step marked verified
C28_VerifiedRecordsUsedChallenge ==
  \A p \in Procs :
    pc[p] \in {"sv_pdf", "sv_invsave", "sv_done"}
      => /\ signatures[req[p].sigId].verified
         /\ signatures[req[p].sigId].webAuthnChallengeId = req[p].stored.challenge

\* C29: the verify step goes on only with a Signature record that exists,
\* belongs to the caller and to the invoice of the URL and is not verified;
\* with any other it answers at the checks, before any assertion is
\* verified, and the challenge store, the counter, the Signatures and the
\* invoices keep their values
C29_SignatureChecksFirst ==
  [][\A p \in Procs :
       pc[p] = "sv_sig" /\ pc'[p] # "sv_sig"
         => LET sid == req[p].sigId
                ok == /\ sid \in 1..Len(signatures)
                      /\ signatures[sid].userId = req[p].user
                      /\ signatures[sid].invoiceId = req[p].id
                      /\ ~signatures[sid].verified
            IN /\ pc'[p] = "sv_verify" => ok
               /\ ~ok => /\ pc'[p] = "idle"
                          /\ UNCHANGED <<challengeStore, counter, signatures, invoices,
                                         nextChallenge, vaDone, vaSuccess, files>>]_vars

C29_Witness ==
  /\ reply.error = "signature_already_verified"
  /\ \E k \in 1..Len(signatures) :
       /\ signatures[k].verified
       /\ invoices[signatures[k].invoiceId].status = "draft"
  /\ \A p \in Procs : pc[p] = "idle"

\* C30: an artifact is never overwritten by the signing of another
\* invoice: the file at the pdfUrl of a signed invoice is the one that was
\* written when that invoice was signed
C30_ArtifactOfItsInvoice ==
  \A i \in Documents :
    invoices[i].status = "signed" /\ invoices[i].pdfUrl # NoPdf
      => /\ invoices[i].pdfUrl \in DOMAIN files
         /\ files[invoices[i].pdfUrl].of = i

====
